---- MODULE Spec2Model ----
(***************************************************************************)
(* Model of track_followers.py: the daily follower snapshot, the diff      *)
(* against yesterday's snapshot and the merge of a dated entry into        *)
(* CHANGELOG.md.                                                           *)
(*                                                                         *)
(* Text (file contents, identifiers, formatted dates) is a sequence of     *)
(* one-character strings, so that substring search, the multiline regex    *)
(* "^### " and slicing are computed character by character as Python does. *)
(***************************************************************************)
EXTENDS Integers, Sequences, FiniteSets, TLC

VARIABLES
    today,      \* date.today(): the calendar date of the process clock
    files,      \* followers_data/: file name (text) -> file content (text)
    changelog,  \* CHANGELOG.md: NoFile, or its content (text)
    log,        \* what the latest invocation wrote through log/warn/error/usage
    exit,       \* exit status of the latest invocation (0, or 1 after sys.exit(1))
    locals,     \* main's and update_changelog's locals in the latest invocation:
                \* followers, new_followers, removed_followers and new_entry
    runs        \* number of invocations that got as far as the snapshot, or of
                \* direct calls of update_changelog

vars == <<today, files, changelog, log, exit, locals, runs>>

----------------------------------------------------------------------------
(* Bounds of the model *)

\* number of times the clock may move to the next day
MaxDay == 2

\* number of invocations that get as far as the snapshot
MaxRuns == 3

\* number of direct calls of update_changelog
MaxCalls == 2

----------------------------------------------------------------------------
(* Text primitives *)

\* the content of a path that does not exist: no text holds this element
NoFile == <<"<no file>">>

NL == "\n"

\* the characters validate_username admits, in code point order
\* ('-' 45 < digits 48..57 < upper case 65..90 < lower case 97..122)
Alphabet ==
    <<"-", "0", "1", "2", "3", "4", "5", "6", "7", "8", "9",
      "A", "B", "C", "D", "E", "F", "G", "H", "I", "J", "K", "L", "M",
      "N", "O", "P", "Q", "R", "S", "T", "U", "V", "W", "X", "Y", "Z",
      "a", "b", "c", "d", "e", "f", "g", "h", "i", "j", "k", "l", "m",
      "n", "o", "p", "q", "r", "s", "t", "u", "v", "w", "x", "y", "z">>

AlphabetSet == {Alphabet[i] : i \in 1..Len(Alphabet)}

\* code point order of two characters of the alphabet
Ord(c) == CHOOSE i \in 1..Len(Alphabet) : Alphabet[i] = c

\* Python's str < str: the first differing character decides, a proper prefix
\* is smaller
RECURSIVE StrLess(_, _)
StrLess(s, t) ==
    IF t = <<>> THEN FALSE
    ELSE IF s = <<>> THEN TRUE
    ELSE IF Head(s) = Head(t) THEN StrLess(Tail(s), Tail(t))
    ELSE Ord(Head(s)) < Ord(Head(t))

\* text[i:i+len(p)] == p  (1-based i)
MatchAt(text, p, i) ==
    /\ i >= 1
    /\ i + Len(p) - 1 <= Len(text)
    /\ \A k \in 1..Len(p) : text[i + k - 1] = p[k]

\* p in text
Contains(text, p) == \E i \in 1..(Len(text) - Len(p) + 1) : MatchAt(text, p, i)

\* positions at which re's MULTILINE "^" matches: the start of the text and
\* right after every newline
LineStart(text, i) == i = 1 \/ (i > 1 /\ i <= Len(text) + 1 /\ text[i - 1] = NL)

Min(S) == CHOOSE x \in S : \A y \in S : x <= y

\* "\n".join(lines)
RECURSIVE Join(_)
Join(lines) ==
    IF lines = <<>> THEN <<>>
    ELSE IF Len(lines) = 1 THEN lines[1]
    ELSE lines[1] \o <<NL>> \o Join(Tail(lines))

\* "".join(parts)
RECURSIVE Concat(_)
Concat(parts) == IF parts = <<>> THEN <<>> ELSE Head(parts) \o Concat(Tail(parts))

----------------------------------------------------------------------------
(* Calendar dates: datetime.date, date - timedelta(days=1), strftime *)

IsLeap(y) == (y % 4 = 0 /\ y % 100 # 0) \/ y % 400 = 0

DaysInMonth(y, m) ==
    IF m = 2 THEN (IF IsLeap(y) THEN 29 ELSE 28)
    ELSE IF m \in {4, 6, 9, 11} THEN 30 ELSE 31

\* d - timedelta(days=1)
PrevDate(d) ==
    IF d.d > 1 THEN [d EXCEPT !.d = d.d - 1]
    ELSE IF d.m > 1 THEN [y |-> d.y, m |-> d.m - 1, d |-> DaysInMonth(d.y, d.m - 1)]
    ELSE [y |-> d.y - 1, m |-> 12, d |-> 31]

\* the day after d: what date.today() returns one day later
NextDate(d) ==
    IF d.d < DaysInMonth(d.y, d.m) THEN [d EXCEPT !.d = d.d + 1]
    ELSE IF d.m < 12 THEN [y |-> d.y, m |-> d.m + 1, d |-> 1]
    ELSE [y |-> d.y + 1, m |-> 1, d |-> 1]

\* strftime's %j before zero padding: the day of the year, 1..366
RECURSIVE DaysBeforeMonth(_, _)
DaysBeforeMonth(y, m) ==
    IF m = 1 THEN 0 ELSE DaysBeforeMonth(y, m - 1) + DaysInMonth(y, m - 1)

DayOfYear(d) == DaysBeforeMonth(d.y, d.m) + d.d

Digit(n) == <<"0", "1", "2", "3", "4", "5", "6", "7", "8", "9">>[n + 1]

\* n as decimal digits, zero padded to the width w (%Y: 4, %m and %d: 2, %j: 3)
RECURSIVE Pad(_, _)
Pad(n, w) ==
    IF w = 0 THEN <<>> ELSE Pad(n \div 10, w - 1) \o <<Digit(n % 10)>>

\* str(n) of a natural number, as an f-string renders it
RECURSIVE Decimal(_)
Decimal(n) == IF n < 10 THEN <<Digit(n)>> ELSE Decimal(n \div 10) \o <<Digit(n % 10)>>

\* current_date.strftime("%Y-%m-%d")
FormatDate(d) == Pad(d.y, 4) \o <<"-">> \o Pad(d.m, 2) \o <<"-">> \o Pad(d.d, 2)

\* d.strftime("%Y-%j")
get_date_id(d) == Pad(d.y, 4) \o <<"-">> \o Pad(DayOfYear(d), 3)

----------------------------------------------------------------------------
(* Sorting *)

\* the place of x in an ascending list: after every element not greater than it
RECURSIVE Insert(_, _)
Insert(x, sorted) ==
    IF sorted = <<>> THEN <<x>>
    ELSE IF StrLess(x, Head(sorted)) THEN <<x>> \o sorted
    ELSE <<Head(sorted)>> \o Insert(x, Tail(sorted))

\* sorted(list): ascending, every occurrence kept
RECURSIVE SortedList(_)
SortedList(list) ==
    IF list = <<>> THEN <<>> ELSE Insert(Head(list), SortedList(Tail(list)))

\* sorted(set): ascending list of the set's elements
RECURSIVE SortedSet(_)
SortedSet(S) ==
    IF S = {} THEN <<>>
    ELSE LET x == CHOOSE e \in S : TRUE IN Insert(x, SortedSet(S \ {x}))

\* set(list)
ToSet(list) == {list[i] : i \in 1..Len(list)}

----------------------------------------------------------------------------
(* Snapshot files *)

Whitespace == {" ", "\t", NL, "\r"}

\* str.strip(): leading and trailing whitespace removed
RECURSIVE LStrip(_)
LStrip(s) == IF s # <<>> /\ Head(s) \in Whitespace THEN LStrip(Tail(s)) ELSE s

RECURSIVE RStrip(_)
RStrip(s) ==
    IF s # <<>> /\ s[Len(s)] \in Whitespace THEN RStrip(SubSeq(s, 1, Len(s) - 1)) ELSE s

Strip(s) == RStrip(LStrip(s))

\* the lines a file object iterates over: each ends at its newline, the last
\* one at the end of the text (no empty line after a final newline)
RECURSIVE FileLines(_)
FileLines(text) ==
    IF text = <<>> THEN <<>>
    ELSE LET ends == {i \in 1..Len(text) : text[i] = NL}
             e == IF ends = {} THEN Len(text) ELSE Min(ends)
         IN <<SubSeq(text, 1, e)>> \o FileLines(SubSeq(text, e + 1, Len(text)))

\* load_followers_from_file: the set of stripped non-blank lines, empty when
\* the file does not exist
load_followers_from_file(dir, name) ==
    IF name \notin DOMAIN dir THEN {}
    ELSE LET lines == FileLines(dir[name])
         IN {Strip(lines[i]) : i \in {j \in 1..Len(lines) : Strip(lines[j]) # <<>>}}

\* what save_followers_to_file writes: every follower followed by a newline
SnapshotText(followers) ==
    Concat([i \in 1..Len(followers) |-> followers[i] \o <<NL>>])

\* a slip: the data directory is emptied before the file is written
SaveIntoEmptiedDir(dir, followers, name) ==
    [n \in {name} |-> SnapshotText(followers)]

\* a slip: every file of the data directory is opened for writing, not only
\* the one that is written
SaveTruncatingOthers(dir, followers, name) ==
    [n \in DOMAIN dir \cup {name} |->
        IF n = name THEN SnapshotText(followers) ELSE <<>>]

\* save_followers_to_file: open(filepath, "w") creates or truncates the file
save_followers_to_file(dir, followers, name) ==
    [n \in DOMAIN dir \cup {name} |->
        IF n = name THEN SnapshotText(followers) ELSE dir[n]]

----------------------------------------------------------------------------
(* Log records: what log(), warn(), error() and usage() print *)

Info(msg, arg) == [level |-> "INFO", msg |-> msg, arg |-> arg]

Warn(msg, arg) == [level |-> "WARN", msg |-> msg, arg |-> arg]

Error(msg, arg) == [level |-> "ERROR", msg |-> msg, arg |-> arg]

Usage == [level |-> "USAGE", msg |-> "Usage: track_followers.py <github_username>",
          arg |-> <<>>]

----------------------------------------------------------------------------
(* update_changelog *)

H3 == <<"#", "#", "#", " ">>

Bullet == <<"-", " ", "@">>

NewFollowersTitle ==
    <<"#", "#", "#", "#", " ", "N", "e", "w", " ", "F", "o", "l", "l", "o", "w", "e",
      "r", "s">>

RemovedFollowersTitle ==
    <<"#", "#", "#", "#", " ", "R", "e", "m", "o", "v", "e", "d", " ", "F", "o", "l",
      "l", "o", "w", "e", "r", "s">>

\* "# Follower Changelog\n\nThis file tracks changes in GitHub followers over time.\n\n"
Header ==
    <<"#", " ", "F", "o", "l", "l", "o", "w", "e", "r", " ", "C", "h", "a", "n", "g",
      "e", "l", "o", "g", "\n", "\n", "T", "h", "i", "s", " ", "f", "i", "l", "e", " ",
      "t", "r", "a", "c", "k", "s", " ", "c", "h", "a", "n", "g", "e", "s", " ", "i",
      "n", " ", "G", "i", "t", "H", "u", "b", " ", "f", "o", "l", "l", "o", "w", "e",
      "r", "s", " ", "o", "v", "e", "r", " ", "t", "i", "m", "e", ".", "\n", "\n">>

\* a slip: the followers are listed in descending order
BulletLinesDescending(followers) ==
    LET sorted == SortedSet(followers)
    IN [i \in 1..Len(sorted) |-> Bullet \o sorted[Len(sorted) + 1 - i]]

\* one "- @<follower>" line per follower of the set, ascending
BulletLines(followers) ==
    LET sorted == SortedSet(followers)
    IN [i \in 1..Len(sorted) |-> Bullet \o sorted[i]]

\* a sub-block of the entry: its title, a blank line, the bullets, a blank
\* line; nothing at all for an empty set
SubBlock(title, followers) ==
    IF followers # {} THEN <<title, <<>>>> \o BulletLines(followers) \o <<<<>>>>
    ELSE <<>>

\* entry_lines: the heading, a blank line, then the two sub-blocks
EntryLines(new_followers, removed_followers, date_str) ==
    <<H3 \o date_str, <<>>>>
        \o SubBlock(NewFollowersTitle, new_followers)
        \o SubBlock(RemovedFollowersTitle, removed_followers)

\* new_entry
NewEntry(new_followers, removed_followers, date_str) ==
    Join(EntryLines(new_followers, removed_followers, date_str))

\* h3_pattern.search(content): match.start() as a 1-based position, 0 for no
\* match
FirstH3(content) ==
    LET hits == {i \in 1..Len(content) : LineStart(content, i) /\ MatchAt(content, H3, i)}
    IN IF hits = {} THEN 0 ELSE Min(hits)

\* a slip: the entry always goes after the content
InsertEntryAtEnd(content, new_entry) == content \o new_entry

\* a slip: the text before the first h3 header is dropped
InsertEntryDropsPreamble(content, new_entry) ==
    LET start == FirstH3(content)
    IN IF start # 0
       THEN new_entry \o SubSeq(content, start, Len(content))
       ELSE content \o new_entry

\* a slip: the pattern is compiled without re.MULTILINE, so "^" matches at
\* the start of the text only
InsertEntryFirstLineOnly(content, new_entry) ==
    IF MatchAt(content, H3, 1)
    THEN new_entry \o content
    ELSE content \o new_entry

\* new_content: the entry before the first h3 header, or after the content
\* when there is none
InsertEntry(content, new_entry) ==
    LET start == FirstH3(content)
    IN IF start # 0
       THEN SubSeq(content, 1, start - 1) \o new_entry
                \o SubSeq(content, start, Len(content))
       ELSE content \o new_entry

\* a slip: the text is searched for the year and month of the date only
DateMonthInChangelog(content, date_str) ==
    Contains(content, SubSeq(date_str, 1, 7))

\* a slip: the date is looked for in the entry headings only
DateInHeading(content, date_str) ==
    \E i \in 1..Len(content) : LineStart(content, i) /\ MatchAt(content, H3 \o date_str, i)

\* a slip: the duplicate check never finds the date
DateNeverFound(content, date_str) == FALSE

\* if date_str in content
DateInChangelog(content, date_str) == Contains(content, date_str)

\* a slip: a changelog without any entry is taken for a missing one and
\* written anew
UpdateChangelogRecreates(new_followers, removed_followers, doc, current_date) ==
    LET date_str == FormatDate(current_date)
        new_entry == NewEntry(new_followers, removed_followers, date_str)
    IN IF doc # NoFile /\ FirstH3(doc) # 0
       THEN IF DateInChangelog(doc, date_str)
            THEN [changelog |-> doc,
                  log |-> <<Warn("already in changelog", date_str)>>,
                  new_entry |-> new_entry]
            ELSE [changelog |-> InsertEntry(doc, new_entry),
                  log |-> <<Info("Changelog updated", <<>>)>>,
                  new_entry |-> new_entry]
       ELSE [changelog |-> Header \o new_entry,
             log |-> <<Info("Changelog updated", <<>>)>>,
             new_entry |-> new_entry]

\* a slip: a duplicate date makes the call return without the warning
UpdateChangelogSilentSkip(new_followers, removed_followers, doc, current_date) ==
    LET date_str == FormatDate(current_date)
        new_entry == NewEntry(new_followers, removed_followers, date_str)
    IN IF doc # NoFile
       THEN IF DateInChangelog(doc, date_str)
            THEN [changelog |-> doc, log |-> <<>>, new_entry |-> new_entry]
            ELSE [changelog |-> InsertEntry(doc, new_entry),
                  log |-> <<Info("Changelog updated", <<>>)>>,
                  new_entry |-> new_entry]
       ELSE [changelog |-> Header \o new_entry,
             log |-> <<Info("Changelog updated", <<>>)>>,
             new_entry |-> new_entry]

\* update_changelog(new_followers, removed_followers, changelog_path,
\* current_date): the file it leaves, what it logs, and the entry it built
update_changelog(new_followers, removed_followers, doc, current_date) ==
    LET date_str == FormatDate(current_date)
        new_entry == NewEntry(new_followers, removed_followers, date_str)
    IN IF doc # NoFile
       THEN IF DateInChangelog(doc, date_str)
            THEN [changelog |-> doc,
                  log |-> <<Warn("already in changelog", date_str)>>,
                  new_entry |-> new_entry]
            ELSE [changelog |-> InsertEntry(doc, new_entry),
                  log |-> <<Info("Changelog updated", <<>>)>>,
                  new_entry |-> new_entry]
       ELSE [changelog |-> Header \o new_entry,
             log |-> <<Info("Changelog updated", <<>>)>>,
             new_entry |-> new_entry]

----------------------------------------------------------------------------
(* validate_username, fetch_followers *)

\* re.match(r"^[a-zA-Z0-9-]+$", username): one or more admitted characters;
\* "$" also matches just before a final newline
validate_username(username) ==
    LET body == IF username # <<>> /\ username[Len(username)] = NL
                THEN SubSeq(username, 1, Len(username) - 1)
                ELSE username
    IN body # <<>> /\ \A i \in 1..Len(body) : body[i] \in AlphabetSet

\* fetch_followers: the logins of every page, sorted; sys.exit(1) through
\* error() when the listing raises
fetch_followers(resp, username) ==
    IF resp.raises
    THEN [exit |-> 1,
          followers |-> <<>>,
          log |-> <<Info("Fetching followers for", username),
                    IF Contains(resp.msg, <<"4", "0", "4">>)
                    THEN Error("User not found", username)
                    ELSE IF \/ Contains(resp.msg, <<"4", "0", "1">>)
                            \/ Contains(resp.msg, <<"4", "0", "3">>)
                    THEN Error("GitHub API requires authentication", <<>>)
                    ELSE Error("GitHub API error", resp.msg)>>]
    ELSE [exit |-> 0,
          followers |-> SortedList(Concat(resp.pages)),
          log |-> <<Info("Fetching followers for", username)>>]

----------------------------------------------------------------------------
(* main *)

\* a slip: the difference taken the wrong way round
NewFollowersSwapped(current_followers, prev_followers) ==
    prev_followers \ current_followers

\* new_followers = current_followers - prev_followers
NewFollowers(current_followers, prev_followers) == current_followers \ prev_followers

\* a slip: the line above copied without swapping the operands
RemovedFollowersCopied(current_followers, prev_followers) ==
    current_followers \ prev_followers

\* a slip: everyone of the previous day counts as removed
RemovedFollowersAll(current_followers, prev_followers) == prev_followers

\* removed_followers = prev_followers - current_followers
RemovedFollowers(current_followers, prev_followers) == prev_followers \ current_followers

\* a slip: an empty file of the previous day is taken for a missing one
PrevFileNotEmpty(dir, prev_date_id) ==
    prev_date_id \in DOMAIN dir /\ dir[prev_date_id] # <<>>

\* a slip: any snapshot of an earlier day counts as the previous day's
AnyEarlierFileExists(dir, prev_date_id) ==
    \E n \in DOMAIN dir : n = prev_date_id \/ StrLess(n, prev_date_id)

\* if prev_file.exists()
PrevFileExists(dir, prev_date_id) == prev_date_id \in DOMAIN dir

\* the locals of an invocation: the fetched list, whether the diff was
\* computed and with what result, whether update_changelog was called and the
\* entry it built; and, of the environment of the invocation, whether the
\* Markdown formatter would raise if it were run on the changelog (nothing in
\* update_changelog runs it)
NoLocals ==
    [followers |-> <<>>, computed |-> FALSE, new_followers |-> {},
     removed_followers |-> {}, rendered |-> FALSE, new_entry |-> <<>>,
     mdformat_raises |-> FALSE]

\* lines 206-227 of main: the comparison with the previous day's file and the
\* changelog update
Compare(followers, prev_date_id, pre) ==
    IF PrevFileExists(files', prev_date_id)
    THEN LET prev_followers == load_followers_from_file(files', prev_date_id)
             current_followers == ToSet(followers)
             new_followers == NewFollowers(current_followers, prev_followers)
             removed_followers == RemovedFollowers(current_followers, prev_followers)
             new_count == Cardinality(new_followers)
             removed_count == Cardinality(removed_followers)
         IN IF new_count > 0 \/ removed_count > 0
            THEN \E u \in {update_changelog(new_followers, removed_followers,
                                             changelog, today)} :
                    /\ changelog' = u.changelog
                    /\ locals' = [followers |-> followers,
                                  computed |-> TRUE,
                                  new_followers |-> new_followers,
                                  removed_followers |-> removed_followers,
                                  rendered |-> TRUE,
                                  new_entry |-> u.new_entry,
                                  mdformat_raises |-> FALSE]
                    /\ log' = pre \o <<Info("Previous day's file found", prev_date_id),
                                        Info("Changes detected",
                                             <<"+">> \o Decimal(new_count)
                                                 \o <<",", "-">>
                                                 \o Decimal(removed_count))>>
                                    \o u.log
                                    \o <<Info("Followers saved to", get_date_id(today)),
                                         Info("Done!", <<>>)>>
            ELSE /\ changelog' = changelog
                 /\ locals' = [NoLocals EXCEPT !.followers = followers, !.computed = TRUE]
                 /\ log' = pre \o <<Info("Previous day's file found", prev_date_id),
                                     Info("No changes in followers", <<>>),
                                     Info("Followers saved to", get_date_id(today)),
                                     Info("Done!", <<>>)>>
    ELSE /\ changelog' = changelog
         /\ locals' = [NoLocals EXCEPT !.followers = followers]
         /\ log' = pre \o <<Info("No previous day's file found", <<>>),
                             Info("Followers saved to", get_date_id(today)),
                             Info("Done!", <<>>)>>

\* an invocation that ends in sys.exit(1) before the snapshot is saved
Exit1(messages) ==
    /\ log' = messages
    /\ exit' = 1
    /\ locals' = NoLocals
    /\ UNCHANGED <<files, changelog, runs>>

\* main() with sys.argv = argv, a token in the environment or not, and the
\* remote listing answering resp
main(argv, token, resp) ==
    IF Len(argv) < 2
    THEN Exit1(<<Usage>>)
    ELSE IF ~validate_username(argv[2])
    THEN Exit1(<<Error("Invalid GitHub username format", <<>>)>>)
    ELSE
        LET yesterday == PrevDate(today)
            current_date_id == get_date_id(today)
            prev_date_id == get_date_id(yesterday)
            tokenLog == IF token THEN <<>>
                        ELSE <<Warn("No GH_TOKEN or GITHUB_TOKEN found", <<>>)>>
        IN \E fetched \in {fetch_followers(resp, argv[2])} :
              LET head == tokenLog \o <<Info("Retrieving followers", <<>>)>>
                              \o fetched.log
              IN IF fetched.exit # 0
                 THEN Exit1(head)
                 ELSE /\ files' = save_followers_to_file(files, fetched.followers,
                                                         current_date_id)
                      /\ Compare(fetched.followers, prev_date_id,
                                 head \o <<Info("Found followers",
                                                Decimal(Len(fetched.followers)))>>)
                      /\ exit' = 0
                      /\ runs' = runs + 1

----------------------------------------------------------------------------
(* Inputs *)

\* the first day of the model: the last day but one of 2023, so that
\* yesterday crosses the end of a month and of a year
StartDate == [y |-> 2023, m |-> 12, d |-> 30]

\* the dates the clock can show
RECURSIVE DateAfter(_, _)
DateAfter(d, n) == IF n = 0 THEN d ELSE NextDate(DateAfter(d, n - 1))

LastDate == DateAfter(StartDate, MaxDay)

\* follower logins: an ordinary one, and one that reads like a date of the
\* model (digits and hyphens are valid in a login)
Pool ==
    { <<"a", "l">>,
      <<"2", "0", "2", "4", "-", "0", "1", "-", "0", "1">> }

\* number of logins the remote listing returns: at most one for every login
\* of the pool, so that a listing can hold the same login twice
MaxLogins == Cardinality(Pool)

\* the lists of at most n logins
RECURSIVE Lists(_)
Lists(n) ==
    IF n = 0 THEN {<<>>}
    ELSE Lists(n - 1) \cup {Append(l, x) : l \in {k \in Lists(n - 1) : Len(k) = n - 1},
                                            x \in Pool}

\* the pages of a listing: no page, the logins on one page, or cut in two
PagesOf(l) ==
    IF l = <<>> THEN {<<>>, <<<<>>>>}
    ELSE {<<l>>} \cup {<<SubSeq(l, 1, k), SubSeq(l, k + 1, Len(l))>> : k \in 1..(Len(l) - 1)}

Responses ==
    {[raises |-> FALSE, msg |-> <<>>, pages |-> p] :
        p \in UNION {PagesOf(l) : l \in Lists(MaxLogins)}}
    \cup
    {[raises |-> TRUE, msg |-> m, pages |-> <<>>] :
        m \in {<<"4", "0", "4">>, <<"4", "0", "3">>, <<"5", "0", "0">>}}

\* command lines: no argument, a valid user name, an invalid one
Argvs ==
    { <<"track_followers.py">>,
      <<"track_followers.py", <<"u", "-", "1">>>>,
      <<"track_followers.py", <<"u", "_", "1">>>> }

ValidArgvs == {a \in Argvs : Len(a) >= 2 /\ validate_username(a[2])}

NoListing == [raises |-> FALSE, msg |-> <<>>, pages |-> <<>>]

\* the invocations of the model. main reads the environment and the remote
\* listing only when the command line passes its checks, so the other command
\* lines come with one environment and one listing; and the missing token
\* only puts a warning in front of the log, so it comes with every failure
\* of the listing and with the empty listing
Invocations ==
    {[argv |-> a, token |-> TRUE, resp |-> r] : a \in ValidArgvs, r \in Responses}
    \cup
    {[argv |-> a, token |-> FALSE, resp |-> r] :
        a \in ValidArgvs, r \in {x \in Responses : x.raises} \cup {NoListing}}
    \cup
    {[argv |-> a, token |-> FALSE, resp |-> NoListing] : a \in Argvs \ ValidArgvs}

\* changelogs written by hand before the first call of update_changelog
\* an empty file: ''
EmptyDoc ==
    <<>>

\* a preamble and no entry: '# Log\n'
PreambleDoc ==
    <<"#", " ", "L", "o", "g", "\n">>

\* a preamble whose last line has no newline: '# Log'
UnterminatedDoc ==
    <<"#", " ", "L", "o", "g">>

\* a preamble that mentions a date of the model in its prose: '# Log\n\nsince 2023-12-31\n'
ProseDateDoc ==
    <<"#", " ", "L", "o", "g", "\n", "\n", "s", "i", "n", "c", "e", " ", "2", "0",
      "2", "3", "-", "1", "2", "-", "3", "1", "\n">>

\* a preamble and one earlier entry, laid out as the tests' initial_changelog: '# Log\n\n### 2023-12-29\n#### New Followers\n- @al\n'
FixtureDoc ==
    <<"#", " ", "L", "o", "g", "\n", "\n", "#", "#", "#", " ", "2", "0", "2", "3",
      "-", "1", "2", "-", "2", "9", "\n", "#", "#", "#", "#", " ", "N", "e", "w",
      " ", "F", "o", "l", "l", "o", "w", "e", "r", "s", "\n", "-", " ", "@", "a",
      "l", "\n">>

ExistingDocs == {EmptyDoc, PreambleDoc, UnterminatedDoc, ProseDateDoc, FixtureDoc}

----------------------------------------------------------------------------
(* Actions *)

\* a fresh working directory: no snapshot, no changelog, nothing run yet
Init ==
    /\ today = StartDate
    /\ files = <<>>
    /\ changelog = NoFile
    /\ log = <<>>
    /\ exit = 0
    /\ locals = NoLocals
    /\ runs = 0

\* one invocation of the script
Main ==
    /\ runs < MaxRuns
    /\ \E i \in Invocations : main(i.argv, i.token, i.resp)
    /\ UNCHANGED today

\* midnight: date.today() moves to the next day
Tick ==
    /\ today # LastDate
    /\ today' = NextDate(today)
    /\ UNCHANGED <<files, changelog, log, exit, locals, runs>>

Next == Main \/ Tick

Spec == Init /\ [][Next]_vars

----------------------------------------------------------------------------
(* update_changelog called on its own, as the unit tests call it *)

\* the Change Sets over the pool: two disjoint sets of logins
ChangeSets ==
    {c \in [new : SUBSET Pool, removed : SUBSET Pool] : c.new \cap c.removed = {}}

\* mdformat_raises: the formatter is patched to raise, as the unit test
\* test_mdformat_error_handled patches it
UpdateChangelogCall(new_followers, removed_followers, mdformat_raises) ==
    /\ runs < MaxCalls
    /\ \E u \in {update_changelog(new_followers, removed_followers, changelog, today)} :
          /\ changelog' = u.changelog
          /\ log' = u.log
          /\ locals' = [followers |-> <<>>,
                        computed |-> FALSE,
                        new_followers |-> new_followers,
                        removed_followers |-> removed_followers,
                        rendered |-> TRUE,
                        new_entry |-> u.new_entry,
                        mdformat_raises |-> mdformat_raises]
    /\ exit' = 0
    /\ runs' = runs + 1
    /\ UNCHANGED <<today, files>>

Call ==
    \E c \in ChangeSets, mdformat_raises \in BOOLEAN :
        UpdateChangelogCall(c.new, c.removed, mdformat_raises)

NextUC == Call \/ Tick

\* calls with dates that never decrease, starting without a changelog
SpecUC == Init /\ [][NextUC]_vars

\* the same calls, starting with or without a changelog written by hand
InitDoc ==
    /\ today = StartDate
    /\ files = <<>>
    /\ changelog \in ExistingDocs \cup {NoFile}
    /\ log = <<>>
    /\ exit = 0
    /\ locals = NoLocals
    /\ runs = 0

SpecDoc == InitDoc /\ [][NextUC]_vars

\* runs of main in a directory that has, or has not, a changelog written by
\* hand
SpecRunDoc == InitDoc /\ [][Next]_vars

----------------------------------------------------------------------------
(* Reading a changelog back: what the properties below say about a text *)

\* text.split("\n")
RECURSIVE TextLines(_)
TextLines(text) ==
    LET ends == {i \in 1..Len(text) : text[i] = NL}
    IN IF ends = {} THEN <<text>>
       ELSE <<SubSeq(text, 1, Min(ends) - 1)>>
                \o TextLines(SubSeq(text, Min(ends) + 1, Len(text)))

StartsWith(s, p) == MatchAt(s, p, 1)

\* the blocks of doc that start at the positions of S, each running to the
\* next position
RECURSIVE BlocksFrom(_, _)
BlocksFrom(doc, S) ==
    IF S = {} THEN <<>>
    ELSE LET a == Min(S)
             rest == S \ {a}
             e == IF rest = {} THEN Len(doc) ELSE Min(rest) - 1
         IN <<SubSeq(doc, a, e)>> \o BlocksFrom(doc, rest)

\* the Entries of a changelog, top to bottom: an Entry runs from a line that
\* begins with the level-3 marker to the next such line
Entries(doc) ==
    IF doc = NoFile THEN <<>>
    ELSE BlocksFrom(doc, {i \in 1..Len(doc) :
                            /\ i = 1 \/ doc[i - 1] = NL
                            /\ MatchAt(doc, H3, i)})

\* the length of the text above the first Entry
PreambleLen(doc) ==
    LET starts == {i \in 1..Len(doc) : (i = 1 \/ doc[i - 1] = NL) /\ MatchAt(doc, H3, i)}
    IN IF starts = {} THEN Len(doc) ELSE Min(starts) - 1

\* the date an Entry is headed with
EntryDate(entry) ==
    LET heading == TextLines(entry)[1]
    IN SubSeq(heading, Len(H3) + 1, Len(heading))

EntryDates(doc) == [i \in 1..Len(Entries(doc)) |-> EntryDate(Entries(doc)[i])]

HasSection(entry, title) ==
    \E i \in 1..Len(TextLines(entry)) : TextLines(entry)[i] = title

\* the elements of lines at the indices of S, in order
RECURSIVE Pick(_, _)
Pick(lines, S) ==
    IF S = {} THEN <<>> ELSE <<lines[Min(S)]>> \o Pick(lines, S \ {Min(S)})

\* the bullet lines of an Entry, top to bottom
Bullets(entry) ==
    LET lines == TextLines(entry)
    IN Pick(lines, {i \in 1..Len(lines) : StartsWith(lines[i], Bullet)})

\* the identifiers listed under a title of an Entry, top to bottom: the
\* bullet lines between the title and the next title
Listed(entry, title) ==
    LET lines == TextLines(entry)
        at == {i \in 1..Len(lines) : lines[i] = title}
    IN IF at = {} THEN <<>>
       ELSE LET t == Min(at)
                stops == {j \in (t + 1)..Len(lines) : StartsWith(lines[j], <<"#">>)}
                last == IF stops = {} THEN Len(lines) ELSE Min(stops) - 1
                items == Pick(lines, {j \in (t + 1)..last : StartsWith(lines[j], Bullet)})
            IN [k \in 1..Len(items) |-> SubSeq(items[k], Len(Bullet) + 1, Len(items[k]))]

\* the list names every element of the set once
ListsExactly(list, S) == ToSet(list) = S /\ Len(list) = Cardinality(S)

Ascending(list) == \A i \in 1..(Len(list) - 1) : StrLess(list[i], list[i + 1])

Logged(l, level, msg) == \E i \in 1..Len(l) : l[i].level = level /\ l[i].msg = msg

\* the duplicate-date warning for the date d
SkipWarned(l, d) == \E i \in 1..Len(l) : l[i] = Warn("already in changelog", d)

CurId == get_date_id(today)

PrevId == get_date_id(PrevDate(today))

Today == FormatDate(today)

\* this step is an invocation that got as far as the snapshot (or, under
\* SpecUC and SpecDoc, a call of update_changelog)
RunStep == runs' = runs + 1

\* the stored set of a Day Key
Snapshot(dir, id) == load_followers_from_file(dir, id)

----------------------------------------------------------------------------
(* The properties. A property of a step names the state the step leaves     *)
(* once, as after: its changelog, files, log, locals and exit status.       *)

After == [changelog |-> changelog', files |-> files', log |-> log',
          locals |-> locals', exit |-> exit']

----------------------------------------------------------------------------
(* C1 *)

\* C1: a run that finds yesterday's snapshot, differing from today's
\* identifiers, while today's formatted date does not occur in the changelog,
\* leaves a changelog whose first Entry is headed with today's date, lists
\* exactly today minus yesterday under New Followers and exactly yesterday
\* minus today under Removed Followers, and is followed by the Entries that
\* were there before the run, unchanged and in their order.
C1_EntryMerged ==
    [][ \A after \in {After} :
        ( /\ RunStep
          /\ PrevId \in DOMAIN files
          /\ ToSet(after.locals.followers) # Snapshot(files, PrevId)
          /\ changelog # NoFile => ~Contains(changelog, Today) )
        =>
        \A cur \in {ToSet(after.locals.followers)}, prev \in {Snapshot(files, PrevId)},
           old \in {Entries(changelog)}, new \in {Entries(after.changelog)} :
           /\ after.changelog # NoFile
           /\ Len(new) = Len(old) + 1
           /\ Tail(new) = old
           /\ EntryDate(new[1]) = Today
           /\ ListsExactly(Listed(new[1], NewFollowersTitle), cur \ prev)
           /\ ListsExactly(Listed(new[1], RemovedFollowersTitle), prev \ cur)
      ]_vars

\* a run has just put today's Entry, with a gained and a removed follower,
\* above an Entry of an earlier day
C1_Witness ==
    /\ Logged(log, "INFO", "Changelog updated")
    /\ Len(Entries(changelog)) >= 2
    /\ EntryDate(Entries(changelog)[1]) = Today
    /\ locals.computed
    /\ locals.new_followers # {}
    /\ locals.removed_followers # {}
    /\ Listed(Entries(changelog)[1], NewFollowersTitle) = SortedSet(locals.new_followers)

----------------------------------------------------------------------------
(* C2 *)

\* C2: a call of update_changelog for a date whose formatted string occurs
\* anywhere in the existing changelog, in a heading or not, is refused: it
\* logs the duplicate-date warning and nothing else, and leaves the changelog
\* as it was, character for character.
C2_DuplicateDateRefused ==
    [][ \A after \in {After} :
        ( /\ RunStep
          /\ changelog # NoFile
          /\ Contains(changelog, Today) )
        =>
        ( /\ after.changelog = changelog
          /\ after.log = <<Warn("already in changelog", Today)>> )
      ]_vars

\* a call has been refused for a date that the changelog holds, but not in
\* the heading of an Entry
C2_Witness ==
    /\ runs > 0
    /\ log = <<Warn("already in changelog", Today)>>
    /\ changelog # NoFile
    /\ Contains(changelog, Today)
    /\ \A i \in 1..Len(Entries(changelog)) : EntryDate(Entries(changelog)[i]) # Today

----------------------------------------------------------------------------
(* C3 *)

\* C3: starting without a changelog, after any calls of update_changelog
\* whose dates never decrease, the dates of the Entry headings decrease
\* strictly from top to bottom; so no date heads two Entries.
C3_NewestFirst ==
    \A i \in 1..Len(EntryDates(changelog)) :
        \A j \in (i + 1)..Len(EntryDates(changelog)) :
            StrLess(EntryDates(changelog)[j], EntryDates(changelog)[i])

\* two calls on different days have left two Entries
C3_Witness ==
    /\ Len(Entries(changelog)) >= 2
    /\ EntryDate(Entries(changelog)[1]) = Today

----------------------------------------------------------------------------
(* C4 *)

\* C4: a call of update_changelog that inserts into an existing changelog
\* leaves the old text up to some position at or after the end of the
\* preamble, then the new Entry, then the old text from that position on:
\* nothing of the old text is removed, edited or reordered, and the Entries
\* that were there are the last Entries of the new text, as they were.
C4_InsertionKeepsOldText ==
    [][ \A after \in {After} :
        ( /\ RunStep
          /\ changelog # NoFile
          /\ Logged(after.log, "INFO", "Changelog updated") )
        =>
        \A old \in {Entries(changelog)}, new \in {Entries(after.changelog)} :
           /\ \E at \in PreambleLen(changelog)..Len(changelog) :
                 after.changelog = SubSeq(changelog, 1, at) \o after.locals.new_entry
                                     \o SubSeq(changelog, at + 1, Len(changelog))
           /\ Len(new) >= Len(old)
           /\ SubSeq(new, Len(new) - Len(old) + 1, Len(new)) = old
      ]_vars

\* a call has put an Entry between a preamble written by hand and an Entry
\* that was there before
C4_Witness ==
    /\ Logged(log, "INFO", "Changelog updated")
    /\ changelog # NoFile
    /\ StartsWith(changelog, PreambleDoc)
    /\ Len(Entries(changelog)) >= 2
    /\ Entries(changelog)[1] = locals.new_entry

----------------------------------------------------------------------------
(* C5 *)

\* C5, as claimed: a run on a date on which an earlier run has already saved
\* the snapshot (yesterday's snapshot being there for both) leaves the
\* changelog as it was, whatever the two follower lists are.
C5_SecondRunLeavesChangelog ==
    [][ \A after \in {After} :
        ( /\ RunStep
          /\ CurId \in DOMAIN files
          /\ PrevId \in DOMAIN files )
        => after.changelog = changelog
      ]_vars

\* C5, amended: a run on a date for which an earlier run that day has merged
\* an Entry leaves the changelog as it was, and logs the duplicate-date
\* warning whenever its own Change Set is not empty.
C5_RerunAfterEntry ==
    [][ \A after \in {After} :
        ( /\ RunStep
          /\ CurId \in DOMAIN files
          /\ PrevId \in DOMAIN files
          /\ \E i \in 1..Len(Entries(changelog)) : EntryDate(Entries(changelog)[i]) = Today )
        =>
        ( /\ after.changelog = changelog
          /\ ToSet(after.locals.followers) # Snapshot(files, PrevId)
                => SkipWarned(after.log, Today) )
      ]_vars

\* a second run of the day, with a list that differs from the first run's and
\* from yesterday's, has been refused: the changelog holds today's Entry, and
\* this run's new followers are not in it
C5_Witness ==
    /\ SkipWarned(log, Today)
    /\ locals.computed
    /\ Len(Entries(changelog)) >= 1
    /\ EntryDate(Entries(changelog)[1]) = Today
    /\ Listed(Entries(changelog)[1], NewFollowersTitle) # SortedSet(locals.new_followers)

----------------------------------------------------------------------------
(* C6 *)

\* C6: a run that finds no snapshot for yesterday's Day Key, whether or not
\* earlier days have one, saves today's snapshot, computes no diff, leaves
\* the changelog (or its absence) as it was and ends with exit status 0.
C6_FirstRun ==
    [][ \A after \in {After} :
        ( /\ RunStep
          /\ PrevId \notin DOMAIN files )
        =>
        ( /\ CurId \in DOMAIN after.files
          /\ Snapshot(after.files, CurId) = ToSet(after.locals.followers)
          /\ ~after.locals.computed
          /\ ~after.locals.rendered
          /\ after.changelog = changelog
          /\ after.exit = 0 )
      ]_vars

\* a run has found no snapshot for yesterday although an earlier day has one,
\* and has saved a list that is not empty
C6_Witness ==
    /\ Logged(log, "INFO", "No previous day's file found")
    /\ PrevId \notin DOMAIN files
    /\ \E n \in DOMAIN files : StrLess(n, PrevId)
    /\ CurId \in DOMAIN files
    /\ Snapshot(files, CurId) # {}

----------------------------------------------------------------------------
(* C7 *)

\* C7: a run whose identifiers equal yesterday's snapshot as sets leaves the
\* changelog as it was: absent if it was absent, the same text otherwise.
C7_NoChangeNoMutation ==
    [][ \A after \in {After} :
        ( /\ RunStep
          /\ PrevId \in DOMAIN files
          /\ ToSet(after.locals.followers) = Snapshot(files, PrevId) )
        => after.changelog = changelog
      ]_vars

\* a run has found no change, with a list that names a login twice and
\* yesterday's snapshot naming it once, while a changelog exists
C7_Witness ==
    /\ Logged(log, "INFO", "No changes in followers")
    /\ changelog # NoFile
    /\ PrevId \in DOMAIN files
    /\ Len(locals.followers) > Cardinality(Snapshot(files, PrevId))
    /\ Snapshot(files, PrevId) # {}

----------------------------------------------------------------------------
(* C8 *)

\* C8: in a run that finds yesterday's snapshot, the Change Set is gained =
\* current minus previous and removed = previous minus current, for every
\* pair of sets, empty ones included; gained and removed are disjoint, and
\* both are empty exactly when current equals previous.
C8_ChangeSet ==
    [][ \A after \in {After} :
        ( /\ RunStep
          /\ PrevId \in DOMAIN files )
        =>
        \A current \in {ToSet(after.locals.followers)},
           previous \in {Snapshot(files, PrevId)} :
           /\ after.locals.computed
           /\ after.locals.new_followers = current \ previous
           /\ after.locals.removed_followers = previous \ current
           /\ after.locals.new_followers \cap after.locals.removed_followers = {}
           /\ (after.locals.new_followers = {} /\ after.locals.removed_followers = {})
                <=> current = previous
      ]_vars

\* a run has compared an empty list with an empty snapshot
C8_Witness ==
    /\ locals.computed
    /\ PrevId \in DOMAIN files /\ files[PrevId] = <<>>
    /\ CurId \in DOMAIN files /\ files[CurId] = <<>>
    /\ locals.new_followers = {} /\ locals.removed_followers = {}

----------------------------------------------------------------------------
(* C9 *)

\* C9: the Entry update_changelog builds for a Change Set and a date starts
\* with the level-3 heading of the date; it has the New Followers sub-block
\* exactly when gained is not empty and the Removed Followers sub-block
\* exactly when removed is not empty, New Followers first when both are
\* there; and each sub-block lists every identifier of its set once, as a
\* line "- @<identifier>", in ascending order.
C9_EntryRendering ==
    [][ \A after \in {After} :
        RunStep
        =>
        \A entry \in {after.locals.new_entry},
           gained \in {after.locals.new_followers},
           removed \in {after.locals.removed_followers} :
           \A lines \in {TextLines(entry)} :
              /\ lines[1] = H3 \o Today
              /\ HasSection(entry, NewFollowersTitle) <=> gained # {}
              /\ HasSection(entry, RemovedFollowersTitle) <=> removed # {}
              /\ \A i, j \in 1..Len(lines) :
                    lines[i] = NewFollowersTitle /\ lines[j] = RemovedFollowersTitle
                        => i < j
              /\ ListsExactly(Listed(entry, NewFollowersTitle), gained)
              /\ Ascending(Listed(entry, NewFollowersTitle))
              /\ ListsExactly(Listed(entry, RemovedFollowersTitle), removed)
              /\ Ascending(Listed(entry, RemovedFollowersTitle))
              /\ Len(Bullets(entry)) = Cardinality(gained) + Cardinality(removed)
      ]_vars

\* an Entry has been built with two gained followers
C9_Witness ==
    /\ locals.rendered
    /\ Cardinality(locals.new_followers) = 2
    /\ Len(Listed(locals.new_entry, NewFollowersTitle)) = 2
    /\ ~HasSection(locals.new_entry, RemovedFollowersTitle)

----------------------------------------------------------------------------
(* C10 *)

\* C10, as claimed: no step changes the stored set of a Day Key that has a
\* snapshot.
C10_SnapshotNeverChanges ==
    [][ \A after \in {After} :
        \A id \in DOMAIN files :
            id \in DOMAIN after.files /\ Snapshot(after.files, id) = Snapshot(files, id)
      ]_vars

\* C10, amended: no run on a later calendar day changes the stored set of a
\* Day Key that has a snapshot; a later run on the same calendar day replaces
\* it with that run's follower list.
C10_SnapshotKeptOnLaterDays ==
    [][ \A after \in {After} :
        /\ \A id \in DOMAIN files :
              id # CurId =>
                  id \in DOMAIN after.files /\ Snapshot(after.files, id) = Snapshot(files, id)
        /\ RunStep /\ CurId \in DOMAIN files =>
              Snapshot(after.files, CurId) = ToSet(after.locals.followers)
      ]_vars

\* a second run of the day has replaced the day's snapshot by a different
\* set, and the snapshot of the day before is still there
C10_Witness ==
    /\ runs >= 3
    /\ exit = 0
    /\ PrevId \in DOMAIN files
    /\ CurId \in DOMAIN files
    /\ Snapshot(files, PrevId) # {}
    /\ Snapshot(files, CurId) = ToSet(locals.followers)
    /\ SkipWarned(log, Today)

----------------------------------------------------------------------------
(* C11 *)

\* C11: no step deletes or changes the file of a Day Key other than today's:
\* every file that was there under another Day Key is still there with the
\* same bytes, the only file a step creates is the one named by today's Day
\* Key, and a run leaves in that file the list it fetched.
C11_OtherDaysUntouched ==
    [][ \A after \in {After} :
        /\ \A id \in DOMAIN files \ {CurId} :
              id \in DOMAIN after.files /\ after.files[id] = files[id]
        /\ DOMAIN after.files \subseteq DOMAIN files \cup {CurId}
        /\ RunStep =>
              /\ CurId \in DOMAIN after.files
              /\ after.files[CurId] = SnapshotText(after.locals.followers)
      ]_vars

\* three days have a snapshot each, the two earlier ones not empty and
\* different from each other
C11_Witness ==
    /\ Cardinality(DOMAIN files) = 3
    /\ \E a \in DOMAIN files \ {CurId, PrevId} :
          /\ files[a] # <<>>
          /\ files[PrevId] # <<>>
          /\ files[a] # files[PrevId]

----------------------------------------------------------------------------
(* C12 *)

\* C12: a call of update_changelog that inserts an Entry runs a formatting
\* pass over the changelog afterwards; when the formatter raises, the call
\* reports "Failed to format changelog", does not fail, and the changelog
\* still contains the Entry it inserted.
C12_FormatFailureReported ==
    [][ \A after \in {After} :
        ( /\ RunStep
          /\ Logged(after.log, "INFO", "Changelog updated")
          /\ after.locals.mdformat_raises )
        =>
        ( /\ Logged(after.log, "ERROR", "Failed to format changelog")
          /\ after.exit = 0
          /\ Contains(after.changelog, after.locals.new_entry) )
      ]_vars

----------------------------------------------------------------------------
(* C13 *)

\* the step has written into the changelog the text of an Entry headed with
\* the date d and listing the Change Set of the step
EntryWritten(before, after, d) ==
    /\ Logged(after.log, "INFO", "Changelog updated")
    /\ after.changelog # before
    /\ Contains(after.changelog, after.locals.new_entry)
    /\ \A e \in {Entries(after.locals.new_entry)} :
          /\ Len(e) = 1
          /\ EntryDate(e[1]) = d
          /\ ListsExactly(Listed(e[1], NewFollowersTitle), after.locals.new_followers)
          /\ ListsExactly(Listed(e[1], RemovedFollowersTitle),
                          after.locals.removed_followers)

\* C13: a run that computes a non-empty Change Set ends in exactly one of two
\* ways: an Entry for today's date listing the Change Set is written into
\* the changelog, or the duplicate-date warning naming today's date is
\* reported and the changelog is left as it was.
C13_NeverSilentlyDropped ==
    [][ \A after \in {After} :
        ( /\ RunStep
          /\ after.locals.computed
          /\ after.locals.new_followers \cup after.locals.removed_followers # {} )
        =>
        \A written \in {EntryWritten(changelog, after, Today)},
           skipped \in {SkipWarned(after.log, Today) /\ after.changelog = changelog} :
           /\ written \/ skipped
           /\ ~(written /\ skipped)
      ]_vars

\* a run has gained one follower and lost another and has written the
\* second Entry of the changelog
C13_Witness ==
    /\ exit = 0
    /\ locals.computed
    /\ locals.new_followers # {}
    /\ locals.removed_followers # {}
    /\ Logged(log, "INFO", "Changelog updated")
    /\ changelog # NoFile
    /\ Len(Entries(changelog)) = 2

----------------------------------------------------------------------------
(* C14 *)

\* C14: the list fetch_followers returns to a run names every login of the
\* listing once, in ascending order: no login occurs in it twice, even when
\* the listing returned it more than once.
C14_FetchedDistinctAscending ==
    exit = 0 =>
        /\ ListsExactly(locals.followers, ToSet(locals.followers))
        /\ Ascending(locals.followers)

----------------------------------------------------------------------------
(* C15 *)

\* the positions of a text where a line begins with the level-3 heading
\* marker
HeadingStarts(doc) ==
    {i \in 1..Len(doc) : (i = 1 \/ doc[i - 1] = NL) /\ MatchAt(doc, H3, i)}

\* C15: a call of update_changelog that inserts into an existing changelog
\* puts the Entry at the start of the first line that begins with "### "
\* when the text has such a line, and at the end of the text when it has
\* none.
C15_InsertionPoint ==
    [][ \A after \in {After} :
        ( /\ RunStep
          /\ changelog # NoFile
          /\ Logged(after.log, "INFO", "Changelog updated") )
        =>
        \A starts \in {HeadingStarts(changelog)} :
           IF starts # {}
           THEN \A p \in {Min(starts)} :
                   after.changelog = SubSeq(changelog, 1, p - 1)
                                       \o after.locals.new_entry
                                       \o SubSeq(changelog, p, Len(changelog))
           ELSE after.changelog = changelog \o after.locals.new_entry
      ]_vars

\* a changelog that had a preamble and no Entry has taken a first Entry at
\* its end and then a second one before the first
C15_Witness ==
    /\ runs = 2
    /\ changelog # NoFile
    /\ Logged(log, "INFO", "Changelog updated")
    /\ StartsWith(changelog, PreambleDoc)
    /\ Min(HeadingStarts(changelog) \cup {Len(changelog) + 1}) = Len(PreambleDoc) + 1
    /\ Len(Entries(changelog)) = 2
    /\ EntryDate(Entries(changelog)[1]) = Today

----------------------------------------------------------------------------
(* C16 *)

\* the three outcomes of a call, by what the call did to the file and said
Created(before, after) ==
    /\ before = NoFile
    /\ after.changelog # NoFile
    /\ after.log = <<Info("Changelog updated", <<>>)>>

Skipped(before, after, d) ==
    /\ before # NoFile
    /\ after.changelog = before
    /\ after.log = <<Warn("already in changelog", d)>>

Inserted(before, after) ==
    /\ before # NoFile
    /\ after.changelog # NoFile
    /\ after.changelog # before
    /\ Len(after.changelog) = Len(before) + Len(after.locals.new_entry)
    /\ Contains(after.changelog, after.locals.new_entry)
    /\ after.log = <<Info("Changelog updated", <<>>)>>

\* C16: every call of update_changelog ends in exactly one of three
\* outcomes, fixed by the state it starts in: without a changelog the file is
\* created and holds exactly the fixed preamble followed by the Entry; with a
\* changelog that contains the date string the call is skipped; with a
\* changelog that does not contain it the Entry is inserted. A changelog that
\* exists is never created anew.
C16_Outcomes ==
    [][ \A after \in {After} :
        RunStep =>
        \A created \in {Created(changelog, after)},
           skipped \in {Skipped(changelog, after, Today)},
           inserted \in {Inserted(changelog, after)} :
           /\ created \/ skipped \/ inserted
           /\ ~(created /\ skipped) /\ ~(created /\ inserted) /\ ~(skipped /\ inserted)
           /\ created <=> changelog = NoFile
           /\ created => after.changelog = Header \o after.locals.new_entry
           /\ skipped <=> (changelog # NoFile /\ Contains(changelog, Today))
           /\ inserted <=> (changelog # NoFile /\ ~Contains(changelog, Today))
      ]_vars

\* a first call has created the changelog and a second call on the same day
\* has been skipped
C16_Witness ==
    /\ runs = 2
    /\ changelog # NoFile
    /\ StartsWith(changelog, Header)
    /\ Len(Entries(changelog)) = 1
    /\ log = <<Warn("already in changelog", Today)>>
    /\ locals.new_entry # SubSeq(changelog, Len(Header) + 1, Len(changelog))

----------------------------------------------------------------------------
(* C17 *)

\* yesterday's snapshot exists and is empty, and the run fetched a list that
\* is not
EmptyYesterday(after) ==
    /\ RunStep
    /\ PrevId \in DOMAIN files
    /\ Snapshot(files, PrevId) = {}
    /\ after.locals.followers # <<>>

\* C17, as claimed: a run that fetches an empty list leaves a snapshot file
\* that exists and is empty; a run that finds yesterday's snapshot existing
\* and empty computes the diff, reports every identifier of its list as
\* gained and writes an Entry for today; a run that finds no snapshot for
\* yesterday computes nothing and leaves the changelog as it was.
C17_EmptyIsNotAbsent ==
    [][ \A after \in {After} :
        /\ RunStep /\ after.locals.followers = <<>> =>
              CurId \in DOMAIN after.files /\ after.files[CurId] = <<>>
        /\ EmptyYesterday(after) =>
              /\ after.locals.computed
              /\ after.locals.new_followers = ToSet(after.locals.followers)
              /\ after.locals.removed_followers = {}
              /\ EntryWritten(changelog, after, Today)
        /\ RunStep /\ PrevId \notin DOMAIN files =>
              ~after.locals.computed /\ after.changelog = changelog
      ]_vars

\* C17, amended: the same, except that the run that finds yesterday's
\* snapshot existing and empty writes the Entry only when the changelog does
\* not yet contain today's date string; when it does, the run reports the
\* duplicate-date skip and leaves the changelog as it was.
C17_EmptyIsNotAbsentUnlessDated ==
    [][ \A after \in {After} :
        /\ RunStep /\ after.locals.followers = <<>> =>
              CurId \in DOMAIN after.files /\ after.files[CurId] = <<>>
        /\ EmptyYesterday(after) =>
              /\ after.locals.computed
              /\ after.locals.new_followers = ToSet(after.locals.followers)
              /\ after.locals.removed_followers = {}
              /\ IF changelog # NoFile /\ Contains(changelog, Today)
                 THEN SkipWarned(after.log, Today) /\ after.changelog = changelog
                 ELSE EntryWritten(changelog, after, Today)
        /\ RunStep /\ PrevId \notin DOMAIN files =>
              ~after.locals.computed /\ after.changelog = changelog
      ]_vars

\* yesterday's snapshot is an empty file, and the run has reported the whole
\* of its list as gained in the first Entry of a changelog it created
C17_Witness ==
    /\ exit = 0
    /\ PrevId \in DOMAIN files
    /\ files[PrevId] = <<>>
    /\ locals.computed
    /\ locals.followers # <<>>
    /\ locals.new_followers = ToSet(locals.followers)
    /\ changelog = Header \o locals.new_entry

----------------------------------------------------------------------------
(* C18 *)

\* C18: after every call of update_changelog that writes an Entry (creating
\* the changelog, splicing before a heading, or appending to a text without
\* a heading, whatever that text ends with), the Entry stands in the text at
\* the start of a line and is the first line there that begins with "### ",
\* which is where the next insertion looks for it.
C18_HeadingAtLineStart ==
    [][ \A after \in {After} :
        ( /\ RunStep
          /\ Logged(after.log, "INFO", "Changelog updated") )
        =>
        \A starts \in {HeadingStarts(after.changelog)} :
           /\ starts # {}
           /\ \A p \in {Min(starts)} :
                 SubSeq(after.changelog, p, p + Len(after.locals.new_entry) - 1)
                     = after.locals.new_entry
      ]_vars

----------------------------------------------------------------------------
(* C19 *)

\* the changelog has an Entry headed with the date d
HasEntryFor(doc, d) ==
    \E e \in {Entries(doc)} : \E i \in 1..Len(e) : EntryDate(e[i]) = d

\* an Entry of the changelog lists a follower identifier in which the date
\* string d occurs
ListsIdentifierWith(doc, d) ==
    \E e \in {Entries(doc)} :
       \E i \in 1..Len(e) :
          \E names \in {Listed(e[i], NewFollowersTitle)
                           \o Listed(e[i], RemovedFollowersTitle)} :
             \E k \in 1..Len(names) : Contains(names[k], d)

\* the step called update_changelog with a Change Set that is not empty
NonEmptyChange(after) ==
    /\ RunStep
    /\ after.locals.rendered
    /\ after.locals.new_followers \cup after.locals.removed_followers # {}

\* C19, as claimed: in a changelog that only this program has written, a
\* non-empty Change Set is skipped as a duplicate only if the changelog has
\* an Entry headed with today's date, and is merged whenever it has none.
C19_SkipOnlyForDatedEntry ==
    [][ \A after \in {After} :
        NonEmptyChange(after) =>
        \A dated \in {HasEntryFor(changelog, Today)} :
           /\ SkipWarned(after.log, Today) => dated
           /\ ~dated => EntryWritten(changelog, after, Today)
      ]_vars

\* C19, amended: in a changelog that only this program has written, a
\* non-empty Change Set is skipped as a duplicate only if today's date string
\* occurs in the changelog, in the heading of an Entry or inside a follower
\* identifier an Entry lists, and is merged whenever the date string does not
\* occur in the changelog.
C19_SkipOnlyForDateString ==
    [][ \A after \in {After} :
        NonEmptyChange(after) =>
           /\ SkipWarned(after.log, Today) =>
                 \/ HasEntryFor(changelog, Today)
                 \/ ListsIdentifierWith(changelog, Today)
           /\ (changelog = NoFile \/ ~Contains(changelog, Today)) =>
                 EntryWritten(changelog, after, Today)
      ]_vars

\* a run has been skipped as a duplicate although the changelog has no Entry
\* for today: an Entry of an earlier day lists a follower whose login is
\* today's date string
C19_Witness ==
    /\ exit = 0
    /\ locals.rendered
    /\ locals.new_followers \cup locals.removed_followers # {}
    /\ SkipWarned(log, Today)
    /\ ~HasEntryFor(changelog, Today)
    /\ ListsIdentifierWith(changelog, Today)

====
